---- MODULE Spec2Model ----
(***************************************************************************)
(* A model of sfsimodels' Soil and SoilProfile (src/sfsimodels/models/     *)
(* soils.py), of PhysicalObject.to_dict (models/abstract_models.py) and of *)
(* add_to_obj (files.py).                                                  *)
(*                                                                         *)
(* Soil: the attribute cluster and its property setters.  The attributes   *)
(* are Python floats; the setters compare computed against given values    *)
(* with == / !=, so rounding decides their outcome.  A float is modelled   *)
(* as a binary floating-point number <<m, x>> (value m * 2^x, m odd or 0)  *)
(* with a MantBits-bit significand and round-half-to-even after every      *)
(* operation, which is IEEE-754 arithmetic at a reduced width (binary64    *)
(* has 53 bits).  None is the empty tuple.                                 *)
(*                                                                         *)
(* SoilProfile: the depth-keyed OrderedDict of layers and the stress       *)
(* integration.  Depths, query depths and unit weights are integers there: *)
(* binary64 computes sums and products of integers below 2^53 exactly.     *)
(***************************************************************************)
EXTENDS Integers, Sequences, FiniteSets, TLC

VARIABLES soil, err, lastOp, steps, clean, log, layers, gwl, query

vars == <<soil, err, lastOp, steps, clean, log, layers, gwl, query>>
soilVars == <<soil, err, lastOp, steps, clean, log>>
profileVars == <<layers, gwl, query>>

(***************************************************************************)
(* Floating-point arithmetic                                               *)
(***************************************************************************)
MantBits == 7

None == <<>>
Zero == <<0, 0>>
One == <<1, 0>>

Abs(n) == IF n < 0 THEN -n ELSE n
Sgn(n) == IF n < 0 THEN -1 ELSE IF n = 0 THEN 0 ELSE 1
Min(a, b) == IF a <= b THEN a ELSE b
Max(a, b) == IF a >= b THEN a ELSE b

\* the canonical form of m * 2^x: an odd significand, or <<0, 0>>
RECURSIVE Norm(_, _)
Norm(m, x) ==
    IF m = 0 THEN Zero
    ELSE IF m % 2 = 0 THEN Norm(m \div 2, x + 1)
    ELSE <<m, x>>

\* scale num/den by 2^t until it lies in [2^MantBits, 2^(MantBits+1))
RECURSIVE Scale(_, _, _)
Scale(num, den, t) ==
    IF num < den * 2^MantBits THEN Scale(2 * num, den, t + 1)
    ELSE IF num >= den * 2^(MantBits + 1) THEN Scale(num, 2 * den, t - 1)
    ELSE <<num, den, t>>

\* (n / d) * 2^x, d > 0, rounded to MantBits bits, ties to even
RoundQ(n, d, x) ==
    IF n = 0 THEN Zero
    ELSE LET sc == Scale(Abs(n), d, 0)
             q == sc[1] \div sc[2]
             r == sc[1] % sc[2]
             half == q \div 2
             up == (q % 2 = 1) /\ (r # 0 \/ half % 2 = 1)
             m == IF up THEN half + 1 ELSE half
         IN  Norm(Sgn(n) * m, x - sc[3] + 1)

FAdd(a, b) ==
    LET x == Min(a[2], b[2])
    IN  RoundQ(a[1] * 2^(a[2] - x) + b[1] * 2^(b[2] - x), 1, x)
FSub(a, b) == FAdd(a, <<-b[1], b[2]>>)
FMul(a, b) == RoundQ(a[1] * b[1], 1, a[2] + b[2])
\* b is not zero
FDiv(a, b) == RoundQ(a[1] * Sgn(b[1]), Abs(b[1]), a[2] - b[2])
IsZero(a) == a[1] = 0
FromInt(n) == RoundQ(n, 1, 0)

(***************************************************************************)
(* Soil                                                                    *)
(***************************************************************************)
_pw == 1000
pwF == FromInt(_pw)

\* a Soil as constructed: every cluster attribute, phi and cohesion are the
\* class default None, the critical-state parameters the class default 0.0.
\* The class has no attribute g_mod or poissons_ratio (only _g_mod and
\* _poissons_ratio), so a new Soil has none: an attribute is a field of the
\* record, and the record grows when a new attribute is assigned
NewSoil ==
    [unit_dry_weight |-> None, e_min |-> None, e_max |-> None,
     e_curr |-> None, relative_density |-> None, specific_gravity |-> None,
     unit_sat_weight |-> None, saturation |-> None,
     phi |-> None, cohesion |-> None,
     e_cr0 |-> Zero, p_cr0 |-> Zero, lamb_crl |-> Zero]

\* how a setter ends: the Soil it leaves behind and the exception it raised
Ok(s) == [s |-> s, err |-> "none"]
Raise(s, e) == [s |-> s, err |-> e]

Set_e_min(s, value) == Ok([s EXCEPT !.e_min = value])
Set_e_max(s, value) == Ok([s EXCEPT !.e_max = value])
Set_saturation(s, value) == Ok([s EXCEPT !.saturation = value])

\* None in any operand of the try block raises TypeError, which stores value;
\* otherwise the value is only compared, never stored
Set_e_curr(s, value) ==
    IF s.e_max = None \/ s.relative_density = None \/ s.e_min = None
    THEN Ok([s EXCEPT !.e_curr = value])
    ELSE LET void_ratio ==
                 FSub(s.e_max, FMul(s.relative_density, FSub(s.e_max, s.e_min)))
         IN  IF void_ratio # value THEN Raise(s, "ModelError") ELSE Ok(s)

\* override cannot be passed through an attribute assignment: it is False
Set_unit_dry_weight(s, value) ==
    LET s1 == [s EXCEPT !.unit_dry_weight = value]
    IN  IF s1.e_curr # None
        THEN LET specific_gravity ==
                     FDiv(FMul(FAdd(One, s1.e_curr), s1.unit_dry_weight), pwF)
             IN  IF s1.specific_gravity # None
                 THEN IF s1.specific_gravity # specific_gravity
                      THEN Raise(s1, "ModelError")
                      ELSE Ok(s1)
                 ELSE Ok([s1 EXCEPT !.specific_gravity = specific_gravity])
        ELSE IF s1.specific_gravity # None
        THEN IF IsZero(s1.unit_dry_weight)
             THEN Raise(s1, "ZeroDivisionError")
             ELSE Set_e_curr(s1, FSub(FDiv(FMul(s1.specific_gravity, pwF),
                                           s1.unit_dry_weight), One))
        ELSE Ok(s1)

Set_specific_gravity(s, value) ==
    LET s1 == [s EXCEPT !.specific_gravity = value]
    IN  IF s1.e_curr # None
        THEN IF IsZero(FAdd(One, s1.e_curr))
             THEN Raise(s1, "ZeroDivisionError")
             ELSE LET unit_dry_weight ==
                          FDiv(FMul(s1.specific_gravity, pwF), FAdd(One, s1.e_curr))
                  IN  IF s1.unit_dry_weight # None
                      THEN IF s1.unit_dry_weight # unit_dry_weight
                           THEN Raise(s1, "ModelError")
                           ELSE Ok(s1)
                      ELSE Set_unit_dry_weight(s1, unit_dry_weight)
        ELSE Ok(s1)

\* e_curr is not None and 1 + e_curr is not zero
_unit_void_volume(s) == FDiv(s.e_curr, FAdd(One, s.e_curr))
_unit_moisture_weight(s) == FMul(FMul(s.saturation, _unit_void_volume(s)), pwF)

\* the except branch of the unit_sat_weight setter, from "try to set other
\* parameters" on; s holds the new unit_sat_weight and a unit_dry_weight
SatWeightCascade(s) ==
    LET unit_moisture_weight == FSub(s.unit_sat_weight, s.unit_dry_weight)
        unit_moisture_volume == FDiv(unit_moisture_weight, pwF)
        \* "can set saturation"
        r1 == IF s.e_curr # None
              THEN IF IsZero(FAdd(One, s.e_curr)) \/ IsZero(_unit_void_volume(s))
                   THEN Raise(s, "ZeroDivisionError")
                   ELSE Set_saturation(s, FDiv(unit_moisture_volume,
                                               _unit_void_volume(s)))
              ELSE Ok(s)
        s2 == r1.s
    IN  IF r1.err # "none" THEN r1
        ELSE IF s2.saturation # None
        THEN IF IsZero(s2.saturation)
             THEN Raise(s2, "ZeroDivisionError")
             ELSE LET unit_void_volume == FDiv(unit_moisture_volume, s2.saturation)
                  IN  IF s2.specific_gravity # None
                      THEN Set_unit_dry_weight(s2,
                               FMul(FMul(FSub(One, unit_void_volume),
                                         s2.specific_gravity), pwF))
                      ELSE IF s2.e_curr # None
                      THEN Set_unit_dry_weight(s2,
                               FSub(s2.unit_sat_weight, unit_moisture_weight))
                      ELSE Ok(s2)
        ELSE Ok(s2)

\* 1 + None raises TypeError before saturation * ... is evaluated; a zero
\* 1 + e_curr raises ZeroDivisionError, which the try block does not catch
Set_unit_sat_weight(s, value) ==
    IF s.e_curr # None /\ IsZero(FAdd(One, s.e_curr))
    THEN Raise(s, "ZeroDivisionError")
    ELSE IF s.e_curr = None \/ s.saturation = None \/ s.unit_dry_weight = None
    THEN LET s1 == [s EXCEPT !.unit_sat_weight = value]
         IN  IF s1.unit_dry_weight # None THEN SatWeightCascade(s1) ELSE Ok(s1)
    ELSE LET unit_sat_weight == FAdd(_unit_moisture_weight(s), s.unit_dry_weight)
         IN  IF unit_sat_weight # value THEN Raise(s, "ModelError") ELSE Ok(s)

\* as Set_relative_density, with the setter's "set parameters" TODO done in
\* this setter alone: e_curr is derived when e_max and e_min are there
Set_relative_density_Deriving(s, value) ==
    IF s.e_max = None \/ s.e_curr = None \/ s.e_min = None
    THEN IF s.e_max # None /\ s.e_min # None
         THEN Ok([s EXCEPT !.relative_density = value,
                           !.e_curr = FSub(s.e_max,
                                           FMul(value, FSub(s.e_max, s.e_min)))])
         ELSE Ok([s EXCEPT !.relative_density = value])
    ELSE IF IsZero(FSub(s.e_max, s.e_min))
    THEN Raise(s, "ZeroDivisionError")
    ELSE LET relative_density ==
                 FDiv(FSub(s.e_max, s.e_curr), FSub(s.e_max, s.e_min))
         IN  IF relative_density # value
             THEN Raise(s, "ModelError")
             ELSE Ok([s EXCEPT !.relative_density = value])

Set_relative_density(s, value) ==
    IF s.e_max = None \/ s.e_curr = None \/ s.e_min = None
    THEN Ok([s EXCEPT !.relative_density = value])
    ELSE IF IsZero(FSub(s.e_max, s.e_min))
    THEN Raise(s, "ZeroDivisionError")
    ELSE LET relative_density ==
                 FDiv(FSub(s.e_max, s.e_curr), FSub(s.e_max, s.e_min))
         IN  IF relative_density # value
             THEN Raise(s, "ModelError")
             ELSE Ok([s EXCEPT !.relative_density = value])

\* setattr(soil, attr, value)
SetAttr(s, attr, value) ==
    CASE attr = "e_min" -> Set_e_min(s, value)
      [] attr = "e_max" -> Set_e_max(s, value)
      [] attr = "saturation" -> Set_saturation(s, value)
      [] attr = "e_curr" -> Set_e_curr(s, value)
      [] attr = "unit_dry_weight" -> Set_unit_dry_weight(s, value)
      [] attr = "specific_gravity" -> Set_specific_gravity(s, value)
      [] attr = "unit_sat_weight" -> Set_unit_sat_weight(s, value)
      [] attr = "relative_density" -> Set_relative_density(s, value)

(***************************************************************************)
(* Serialising a Soil (PhysicalObject.to_dict) and loading a dictionary    *)
(* onto one (files.add_to_obj).  A dictionary is the sequence of its       *)
(* <<key, value>> items in key order                                       *)
(***************************************************************************)
\* Soil.inputs
inputs ==
    <<"g_mod", "phi", "relative_density", "unit_dry_weight",
      "unit_sat_weight", "cohesion", "poissons_ratio", "e_min", "e_max",
      "e_cr0", "p_cr0", "lamb_crl">>
skip_list == {}

\* the properties of Soil whose setter checks or derives
SetterProperties ==
    {"e_min", "e_max", "saturation", "e_curr", "unit_dry_weight",
     "specific_gravity", "unit_sat_weight", "relative_density"}
\* the properties of Soil and PhysicalObject that have no setter
ReadOnlyProperties ==
    {"unit_weight", "porosity", "moisture_content", "phi_r", "k_0", "n1_60",
     "attributes", "ancestor_types"}

\* setattr(obj, item, value): a property with a setter runs the setter, a
\* property without one raises AttributeError, and any other name is stored
\* on the object (phi and cohesion have setters that only store)
setattr(obj, item, value) ==
    IF item \in SetterProperties THEN SetAttr(obj, item, value)
    ELSE IF item \in ReadOnlyProperties THEN Raise(obj, "AttributeError")
    ELSE Ok([k \in DOMAIN obj \cup {item} |->
                IF k = item THEN value ELSE obj[k]])

\* a float or None is already a serialisable primitive
collect_serial_value(value) == value

\* the loop of to_dict over full_inputs; reading an attribute the object does
\* not have raises AttributeError
RECURSIVE ToDictLoop(_, _, _)
ToDictLoop(obj, full_inputs, outputs) ==
    IF full_inputs = <<>> THEN [d |-> outputs, err |-> "none"]
    ELSE LET item == Head(full_inputs)
         IN  IF item \in skip_list
             THEN ToDictLoop(obj, Tail(full_inputs), outputs)
             ELSE IF item \notin DOMAIN obj
             THEN [d |-> outputs, err |-> "AttributeError"]
             ELSE ToDictLoop(obj, Tail(full_inputs),
                             Append(outputs,
                                    <<item, collect_serial_value(obj[item])>>))

\* obj.to_dict(): extra is empty and export_none is True by default
to_dict(obj) == ToDictLoop(obj, inputs, <<>>)

\* the attributes a Soil declares: its class attributes and its inputs
DeclaredAttributes ==
    DOMAIN NewSoil \cup {inputs[i] : i \in 1..Len(inputs)}

\* a loader that leaves out the keys the Soil does not declare
RECURSIVE add_to_obj_Ignoring(_, _, _)
ThenIgnoring(r, rest, exceptions) ==
    IF r.err # "none" THEN r ELSE add_to_obj_Ignoring(r.s, rest, exceptions)
add_to_obj_Ignoring(obj, dictionary, exceptions) ==
    IF dictionary = <<>> THEN Ok(obj)
    ELSE LET item == Head(dictionary)[1]
             value == Head(dictionary)[2]
         IN  IF item \in exceptions \/ value = None
                  \/ item \notin DeclaredAttributes
             THEN add_to_obj_Ignoring(obj, Tail(dictionary), exceptions)
             ELSE ThenIgnoring(setattr(obj, item, value), Tail(dictionary), exceptions)

\* add_to_obj(obj, dictionary, exceptions): an exception of a setter ends the
\* loop and leaves the assignments made so far
RECURSIVE add_to_obj(_, _, _)
ThenLoad(r, rest, exceptions) ==
    IF r.err # "none" THEN r ELSE add_to_obj(r.s, rest, exceptions)
add_to_obj(obj, dictionary, exceptions) ==
    IF dictionary = <<>> THEN Ok(obj)
    ELSE LET item == Head(dictionary)[1]
             value == Head(dictionary)[2]
         IN  IF item \in exceptions \/ value = None
             THEN add_to_obj(obj, Tail(dictionary), exceptions)
             ELSE ThenLoad(setattr(obj, item, value), Tail(dictionary), exceptions)

(***************************************************************************)
(* The values a caller assigns                                             *)
(***************************************************************************)
\* a <= b
FLe(a, b) ==
    LET x == Min(a[2], b[2])
    IN  a[1] * 2^(a[2] - x) <= b[1] * 2^(b[2] - x)

Half == <<1, -1>>
Quarter == <<1, -2>>
ThreeQuarters == <<3, -2>>

EMinInputs == {Half, ThreeQuarters}
EMaxInputs == {One, Half}
RelativeDensityInputs == {Half, Quarter, Zero}
ECurrInputs == {ThreeQuarters, One}
UnitDryWeightInputs == {FromInt(1600), FromInt(1500)}
SaturationInputs == {One, Half}
UnitSatWeightInputs == {FromInt(2000), FromInt(1920)}
\* the specific gravity that is consistent with a void ratio and a dry weight,
\* as the unit_dry_weight setter itself derives it
ConsistentSpecificGravity(e, udw) == FDiv(FMul(FAdd(One, e), udw), pwF)
SpecificGravityInputs ==
    {<<5, -1>>} \cup {ConsistentSpecificGravity(e, w) :
                        e \in ECurrInputs, w \in UnitDryWeightInputs}

(***************************************************************************)
(* SoilProfile.  Depths and unit weights are integers; an attribute of a   *)
(* layer's Soil is None or Some(n)                                         *)
(***************************************************************************)
Some(n) == <<n>>
Val(v) == v[1]

\* Soil(): what the profile reads of a Soil, all unset
EmptyLayerSoil ==
    [unit_dry_weight |-> None, unit_sat_weight |-> None, saturation |-> None]
DrySoil(w) == [EmptyLayerSoil EXCEPT !.unit_dry_weight = Some(w)]
SaturatedSoil(dry, sat) ==
    [unit_dry_weight |-> Some(dry), unit_sat_weight |-> Some(sat),
     saturation |-> Some(1)]

\* Soil.unit_weight: the saturated weight when saturation is truthy
unit_weight(s) ==
    IF s.saturation # None /\ s.saturation # Some(0)
    THEN s.unit_sat_weight
    ELSE s.unit_dry_weight

unit_weight_water == 9800

\* OrderedDict.__setitem__: a known key keeps its place, a new one goes last
SetItem(items, depth, s) ==
    IF \E i \in 1..Len(items) : items[i][1] = depth
    THEN [i \in 1..Len(items) |->
             IF items[i][1] = depth THEN <<depth, s>> ELSE items[i]]
    ELSE Append(items, <<depth, s>>)

\* sorted(items, key=lambda t: t[0]), a stable sort
RECURSIVE InsertSorted(_, _)
InsertSorted(item, items) ==
    IF items = <<>> THEN <<item>>
    ELSE IF item[1] < items[1][1] THEN <<item>> \o items
    ELSE <<items[1]>> \o InsertSorted(item, Tail(items))
RECURSIVE _sort_layers(_)
_sort_layers(items) ==
    IF items = <<>> THEN <<>>
    ELSE InsertSorted(items[Len(items)],
                      _sort_layers(SubSeq(items, 1, Len(items) - 1)))

\* add_layer without its call of _sort_layers
add_layer_Unsorted(items, depth, s) == SetItem(items, depth, s)

add_layer(items, depth, s) == _sort_layers(SetItem(items, depth, s))

HasDepth(items, depth) == \E i \in 1..Len(items) : items[i][1] = depth
\* del self._layers[depth], for a depth that is a key
DelItem(items, depth) ==
    SubSeq(items, 1, (CHOOSE i \in 1..Len(items) : items[i][1] = depth) - 1)
        \o SubSeq(items, (CHOOSE i \in 1..Len(items) : items[i][1] = depth) + 1,
                  Len(items))
\* remove_layer as self._layers.pop(depth, None): a missing depth passes
remove_layer_Lenient(items, depth) ==
    IF HasDepth(items, depth)
    THEN [layers |-> DelItem(items, depth), err |-> "none"]
    ELSE [layers |-> items, err |-> "none"]

\* the mapping remove_layer leaves and the exception it raises
remove_layer(items, depth) ==
    IF HasDepth(items, depth)
    THEN [layers |-> DelItem(items, depth), err |-> "none"]
    ELSE [layers |-> items, err |-> "KeyError"]

depths(items) == [i \in 1..Len(items) |-> items[i][1]]
layer(items, index) == items[index][2]
layer_depth(items, index) == depths(items)[index]
n_layers(items) == Len(items)

\* the loop of one_vertical_total_stress from its i-th round on (i counts from
\* 1); a unit weight of None makes height * unit_weight raise TypeError
RECURSIVE StressLoop(_, _, _, _)
StressLoop(items, z_c, i, total_stress) ==
    IF i > Len(items) THEN [err |-> "none", value |-> total_stress]
    ELSE IF z_c > depths(items)[i]
    THEN IF unit_weight(layer(items, i)) = None
         THEN [err |-> "TypeError", value |-> 0]
         ELSE IF i < Len(items) /\ z_c > depths(items)[i + 1]
         THEN StressLoop(items, z_c, i + 1,
                         total_stress + (depths(items)[i + 1] - depths(items)[i])
                                          * Val(unit_weight(layer(items, i))))
         ELSE [err |-> "none",
               value |-> total_stress + (z_c - depths(items)[i])
                                          * Val(unit_weight(layer(items, i)))]
    ELSE StressLoop(items, z_c, i + 1, total_stress)

\* the loop with "total_stress = ..." for "total_stress += ..." in its last
\* round: the layers above the one holding z_c are lost
RECURSIVE StressLoop_Assigning(_, _, _, _)
StressLoop_Assigning(items, z_c, i, total_stress) ==
    IF i > Len(items) THEN [err |-> "none", value |-> total_stress]
    ELSE IF z_c > depths(items)[i]
    THEN IF unit_weight(layer(items, i)) = None
         THEN [err |-> "TypeError", value |-> 0]
         ELSE IF i < Len(items) /\ z_c > depths(items)[i + 1]
         THEN StressLoop_Assigning(items, z_c, i + 1,
                         total_stress + (depths(items)[i + 1] - depths(items)[i])
                                          * Val(unit_weight(layer(items, i))))
         ELSE [err |-> "none",
               value |-> (z_c - depths(items)[i])
                            * Val(unit_weight(layer(items, i)))]
    ELSE StressLoop_Assigning(items, z_c, i + 1, total_stress)

\* the loop with the layer that holds z_c counted at its full thickness: the
\* stress at the next layer top at or below z_c
one_vertical_total_stress_Unclipped(items, z_c) ==
    LET below == {i \in 1..Len(items) : depths(items)[i] >= z_c}
        through == IF below = {} THEN z_c
                   ELSE depths(items)[CHOOSE i \in below : \A j \in below : i <= j]
    IN  StressLoop(items, through, 1, 0)

one_vertical_total_stress(items, z_c) == StressLoop(items, z_c, 1, 0)

vertical_total_stress_Assigning(items, z) == StressLoop_Assigning(items, z, 1, 0)

\* z is a number: the scalar branch
vertical_total_stress(items, z) == one_vertical_total_stress(items, z)

\* the pore pressure taken as (z_c - gwl) * unit_weight_water, not clamped at 0
vertical_effective_stress_Unclamped(items, g, z_c) ==
    LET sigma_v_c == vertical_total_stress(items, z_c)
    IN  IF sigma_v_c.err # "none" THEN sigma_v_c
        ELSE IF g = None THEN [err |-> "TypeError", value |-> 0]
        ELSE [err |-> "none",
              value |-> sigma_v_c.value - (z_c - Val(g)) * unit_weight_water]

\* z_c - None raises TypeError
vertical_effective_stress(items, g, z_c) ==
    LET sigma_v_c == vertical_total_stress(items, z_c)
    IN  IF sigma_v_c.err # "none" THEN sigma_v_c
        ELSE IF g = None THEN [err |-> "TypeError", value |-> 0]
        ELSE [err |-> "none",
              value |-> sigma_v_c.value
                          - Max(z_c - Val(g), 0) * unit_weight_water]

NoQuery == <<>>
\* SoilProfile(): one implicit layer at depth 0
ProfileInit ==
    /\ layers = << <<0, EmptyLayerSoil>> >>
    /\ gwl = None
    /\ query = NoQuery

(***************************************************************************)
(* Soil: one Soil object and the assignments a caller makes to it          *)
(***************************************************************************)
Init ==
    /\ soil = NewSoil
    /\ err = "none"
    /\ lastOp = <<>>
    /\ steps = 0
    /\ clean = TRUE
    /\ log = <<>>
    /\ ProfileInit

\* the number of assignments a caller makes to one Soil
MaxAssign == 4

\* soil.attr = value; err is the exception the statement raised (if any), clean
\* says that no assignment to this Soil has raised so far
Assign(attr, value) ==
    LET r == SetAttr(soil, attr, value)
    IN  /\ steps < MaxAssign
        /\ steps' = steps + 1
        /\ soil' = r.s
        /\ err' = r.err
        /\ clean' = (clean /\ r.err = "none")
        /\ lastOp' = <<attr, value>>
        /\ UNCHANGED <<log, profileVars>>

AssignEMin == \E v \in EMinInputs : Assign("e_min", v)
AssignEMax == \E v \in EMaxInputs : Assign("e_max", v)
AssignRelativeDensity == \E v \in RelativeDensityInputs : Assign("relative_density", v)
AssignECurr == \E v \in ECurrInputs : Assign("e_curr", v)
AssignUnitDryWeight == \E v \in UnitDryWeightInputs : Assign("unit_dry_weight", v)
AssignSpecificGravity == \E v \in SpecificGravityInputs : Assign("specific_gravity", v)
AssignSaturation == \E v \in SaturationInputs : Assign("saturation", v)
AssignUnitSatWeight == \E v \in UnitSatWeightInputs : Assign("unit_sat_weight", v)

Next ==
    \/ AssignEMin
    \/ AssignEMax
    \/ AssignRelativeDensity
    \/ AssignECurr
    \/ AssignUnitDryWeight
    \/ AssignSpecificGravity
    \/ AssignSaturation
    \/ AssignUnitSatWeight

Spec == Init /\ [][Next]_vars

(***************************************************************************)
(* A fresh Soil that is given e_max, e_min and relative_density, each      *)
(* once, in some order; log is the script of assignments run so far        *)
(***************************************************************************)
Assigned == {log[i][1] : i \in 1..Len(log)}

OrderAssign(attr, value) ==
    LET r == SetAttr(soil, attr, value)
    IN  /\ attr \notin Assigned
        /\ soil' = r.s
        /\ err' = r.err
        /\ clean' = (clean /\ r.err = "none")
        /\ lastOp' = <<attr, value>>
        /\ steps' = steps + 1
        /\ log' = Append(log, <<attr, value>>)
        /\ UNCHANGED profileVars

OrderEMin == \E v \in EMinInputs : OrderAssign("e_min", v)
OrderEMax == \E v \in EMaxInputs : OrderAssign("e_max", v)
OrderRelativeDensity == \E v \in RelativeDensityInputs : OrderAssign("relative_density", v)

OrderNext ==
    \/ OrderEMin
    \/ OrderEMax
    \/ OrderRelativeDensity

OrderSpec == Init /\ [][OrderNext]_vars

\* the script run on a fresh Soil, statement by statement
RECURSIVE RunFrom(_, _, _)
RunFrom(s, c, script) ==
    IF script = <<>> THEN [s |-> s, clean |-> c]
    ELSE LET r == SetAttr(s, script[1][1], script[1][2])
         IN  RunFrom(r.s, c /\ r.err = "none", Tail(script))

Orders == {p \in [1..3 -> 1..3] : \A i, j \in 1..3 : p[i] = p[j] => i = j}
Reordered(p) == [i \in 1..3 |-> log[p[i]]]
LoggedValue(attr) == (CHOOSE i \in 1..Len(log) : log[i][1] = attr)
ValueOf(attr) == log[LoggedValue(attr)][2]

(***************************************************************************)
(* Claims about the Soil cluster                                           *)
(***************************************************************************)
Cluster ==
    {"unit_dry_weight", "specific_gravity", "e_curr", "unit_sat_weight",
     "saturation", "relative_density"}
IsSet(a) == soil[a] # None
AllSet(S) == \A a \in S : IsSet(a)

\* the three equations of the data model, on the stored values
VoidRatioEquation ==
    soil.e_curr = FSub(soil.e_max, FMul(soil.relative_density,
                                        FSub(soil.e_max, soil.e_min)))
SpecificGravityEquation ==
    soil.specific_gravity =
        FDiv(FMul(FAdd(One, soil.e_curr), soil.unit_dry_weight), pwF)
SatWeightEquation ==
    soil.unit_sat_weight =
        FAdd(soil.unit_dry_weight,
             FMul(FMul(soil.saturation,
                       FDiv(soil.e_curr, FAdd(One, soil.e_curr))), pwF))

\* C1: after any sequence of successful assignments to the Soil, the stored
\* values satisfy, by exact equality, each equation of the data model whose
\* attributes are all set.
C1_ClusterConsistent ==
    clean =>
        /\ AllSet({"e_max", "e_min", "relative_density", "e_curr"})
               => VoidRatioEquation
        /\ AllSet({"e_curr", "unit_dry_weight", "specific_gravity"})
               => SpecificGravityEquation
        /\ AllSet({"unit_dry_weight", "saturation", "e_curr", "unit_sat_weight"})
               => SatWeightEquation

\* C2: a successful assignment to one cluster attribute leaves the stored value
\* of every other cluster attribute that was already set as it was.
C2_NoSilentOverwrite ==
    [][(clean' /\ lastOp'[1] \in Cluster)
          => \A a \in Cluster \ {lastOp'[1]} :
                 soil[a] # None => soil'[a] = soil[a]]_vars

\* C3: after a successful assignment to a cluster attribute, every peer that
\* one equation of the data model derives from the attributes now set is set.
C3_DerivablePeersFilled ==
    (clean /\ lastOp # <<>> /\ lastOp[1] \in Cluster) =>
        /\ AllSet({"e_max", "e_min", "relative_density"}) => IsSet("e_curr")
        /\ AllSet({"e_curr", "unit_dry_weight"}) => IsSet("specific_gravity")
        /\ AllSet({"specific_gravity", "unit_dry_weight"}) => IsSet("e_curr")
        /\ AllSet({"specific_gravity", "e_curr"}) => IsSet("unit_dry_weight")
        /\ AllSet({"unit_dry_weight", "saturation", "e_curr"})
               => IsSet("unit_sat_weight")

\* C4: assigning unit_dry_weight and then specific_gravity to a Soil that has a
\* void ratio raises nothing when the pair satisfies specific_gravity =
\* (1 + e_curr) * unit_dry_weight / pw, and raises ModelError when it does not.
C4_DryWeightThenSpecificGravity ==
    [][(/\ clean
        /\ lastOp # <<>>
        /\ lastOp[1] = "unit_dry_weight"
        /\ soil.e_curr # None
        /\ lastOp'[1] = "specific_gravity")
          => IF lastOp'[2] = ConsistentSpecificGravity(soil.e_curr,
                                                      soil.unit_dry_weight)
             THEN err' = "none"
             ELSE err' = "ModelError"]_vars

\* C5: e_max, e_min and relative_density with e_min <= e_max, assigned to a
\* fresh Soil, leave the same e_curr whatever the order of the three
\* assignments, and no order raises while another does not.
C5_OrderIndependent ==
    (Len(log) = 3 /\ FLe(ValueOf("e_min"), ValueOf("e_max"))) =>
        \A p \in Orders :
            LET r == RunFrom(NewSoil, TRUE, Reordered(p))
            IN  r.s.e_curr = soil.e_curr /\ r.clean = clean

C5_Witness ==
    /\ Len(log) = 3
    /\ log[3][1] = "relative_density"
    /\ FLe(ValueOf("e_min"), ValueOf("e_max"))
    /\ ValueOf("e_min") # ValueOf("e_max")
    /\ clean
    /\ soil.e_curr = None

(***************************************************************************)
(* SoilProfile: one profile, its layers edited and its stresses queried    *)
(***************************************************************************)
DepthInputs == {-1, 0, 3, 5}
LayerSoils ==
    {EmptyLayerSoil, DrySoil(18000), DrySoil(19000), SaturatedSoil(17000, 20000)}
GwlInputs == {2, 4}
\* the depths the stresses are examined at, and those a caller queries
ZAbove == 2
MaxZ == 8
ZInputs == (0 - ZAbove)..MaxZ
QueryInputs == {0, 3, 7}

AddLayer ==
    \E d \in DepthInputs, s \in LayerSoils :
        /\ layers' = add_layer(layers, d, s)
        /\ err' = "none"
        /\ lastOp' = <<"add_layer", d, s>>
        /\ query' = NoQuery
        /\ UNCHANGED <<soil, steps, clean, log, gwl>>

RemoveLayer ==
    \E d \in DepthInputs :
        LET r == remove_layer(layers, d)
        IN  /\ layers' = r.layers
            /\ err' = r.err
            /\ lastOp' = <<"remove_layer", d>>
            /\ query' = NoQuery
            /\ UNCHANGED <<soil, steps, clean, log, gwl>>

\* profile.gwl = g
SetGwl ==
    \E g \in GwlInputs :
        /\ gwl' = Some(g)
        /\ err' = "none"
        /\ lastOp' = <<"gwl", g>>
        /\ query' = NoQuery
        /\ UNCHANGED <<soil, steps, clean, log, layers>>

QueryTotalStress ==
    \E z \in QueryInputs :
        LET r == vertical_total_stress(layers, z)
        IN  /\ err' = r.err
            /\ lastOp' = <<"vertical_total_stress", z>>
            /\ query' = IF r.err = "none" THEN Some(r.value) ELSE NoQuery
            /\ UNCHANGED <<soil, steps, clean, log, layers, gwl>>

QueryEffectiveStress ==
    \E z \in QueryInputs :
        LET r == vertical_effective_stress(layers, gwl, z)
        IN  /\ err' = r.err
            /\ lastOp' = <<"vertical_effective_stress", z>>
            /\ query' = IF r.err = "none" THEN Some(r.value) ELSE NoQuery
            /\ UNCHANGED <<soil, steps, clean, log, layers, gwl>>

ProfileNext ==
    \/ AddLayer
    \/ RemoveLayer
    \/ SetGwl
    \/ QueryTotalStress
    \/ QueryEffectiveStress

ProfileSpec == Init /\ [][ProfileNext]_vars

(***************************************************************************)
(* Claims about the SoilProfile                                            *)
(***************************************************************************)
Tops == {layers[i][1] : i \in 1..Len(layers)}
SoilAt(d) == layers[CHOOSE i \in 1..Len(layers) : layers[i][1] = d][2]
WeightAt(d) == unit_weight(SoilAt(d))

\* C6: after any sequence of add_layer and remove_layer the layers mapping
\* iterates in strictly ascending order of depth, so depths, layer(i) and
\* layer_depth(i) follow that order and no depth occurs twice.
C6_LayersSorted ==
    \A i, j \in 1..n_layers(layers) :
        i < j => /\ layer_depth(layers, i) < layer_depth(layers, j)
                 /\ layer(layers, i) = SoilAt(layer_depth(layers, i))

C6_Witness ==
    /\ lastOp # <<>>
    /\ lastOp[1] = "add_layer"
    /\ lastOp[2] = -1
    /\ n_layers(layers) >= 3
    /\ layer_depth(layers, 1) = -1

\* the thickness of the layer with top d that lies above depth z
ThicknessAbove(d, z) ==
    LET lower == {k \in Tops : k > d}
    IN  IF lower = {} THEN z - d
        ELSE Min(z, CHOOSE k \in lower : \A m \in lower : k <= m) - d
RECURSIVE WeightSum(_, _)
WeightSum(S, z) ==
    IF S = {} THEN 0
    ELSE LET d == CHOOSE k \in S : TRUE
         IN  Val(WeightAt(d)) * ThicknessAbove(d, z) + WeightSum(S \ {d}, z)
ExampleLayers == << <<0, DrySoil(18000)>>, <<5, DrySoil(19000)>> >>

\* C7: one_vertical_total_stress(z) is the sum, over the layers whose top is
\* above z, of unit weight times the thickness of the layer down to z or to the
\* next layer top, and is 0 for z at or above the first layer top; the profile
\* {0: 18000, 5: 19000} gives 54000 at z = 3 and 5 * 18000 + 2 * 19000 at z = 7.
C7_TotalStressIsWeightSum ==
    /\ \A z \in ZInputs :
           LET above == {d \in Tops : d < z}
           IN  (\A d \in above : WeightAt(d) # None)
                   => one_vertical_total_stress(layers, z)
                          = [err |-> "none", value |-> WeightSum(above, z)]
    /\ \A z \in ZInputs :
           (\A d \in Tops : z <= d)
               => one_vertical_total_stress(layers, z).value = 0
    /\ layers = ExampleLayers
           => /\ one_vertical_total_stress(layers, 3).value = 54000
              /\ one_vertical_total_stress(layers, 7).value
                     = 5 * 18000 + 2 * 19000

C7_Witness ==
    /\ layers = ExampleLayers
    /\ lastOp = <<"vertical_total_stress", 7>>
    /\ err = "none"
    /\ query = Some(128000)

\* every layer's Soil has a unit weight (none of them negative)
WeightsDefined == \A d \in Tops : WeightAt(d) # None /\ Val(WeightAt(d)) >= 0

\* C8 as stated: for a profile whose soils have non-negative unit weights,
\* vertical_total_stress is non-decreasing in z and is 0 at z = 0.
C8_NonDecreasingAndZeroAtZero ==
    WeightsDefined =>
        /\ \A z1, z2 \in ZInputs :
               z1 <= z2 => vertical_total_stress(layers, z1).value
                              <= vertical_total_stress(layers, z2).value
        /\ vertical_total_stress(layers, 0) = [err |-> "none", value |-> 0]

\* C8 as amended: for a profile whose soils have non-negative unit weights,
\* vertical_total_stress is non-decreasing in z; and it is 0 at z = 0 when no
\* layer top lies above depth 0.
C8_NonDecreasingAndZeroAtSurface ==
    /\ WeightsDefined =>
           \A z1, z2 \in ZInputs :
               z1 <= z2 => /\ vertical_total_stress(layers, z1).err = "none"
                           /\ vertical_total_stress(layers, z2).err = "none"
                           /\ vertical_total_stress(layers, z1).value
                                  <= vertical_total_stress(layers, z2).value
    /\ (\A d \in Tops : d >= 0)
           => vertical_total_stress(layers, 0) = [err |-> "none", value |-> 0]

C8_Witness ==
    /\ WeightsDefined
    /\ n_layers(layers) >= 3
    /\ \A d \in Tops : d >= 0
    /\ lastOp = <<"vertical_total_stress", 7>>
    /\ err = "none"
    /\ Val(query) > vertical_total_stress(layers, 3).value
    /\ vertical_total_stress(layers, 3).value > 0

\* C9: with gwl set, vertical_effective_stress(z) is vertical_total_stress(z)
\* less max(z - gwl, 0) * unit_weight_water: the total stress itself for z at
\* or above the water level, and less (z - gwl) * 9800 below it.
C9_EffectiveStress ==
    \A z \in ZInputs :
        (gwl # None /\ vertical_total_stress(layers, z).err = "none") =>
            LET eff == vertical_effective_stress(layers, gwl, z)
                tot == vertical_total_stress(layers, z).value
            IN  /\ eff.err = "none"
                /\ z <= Val(gwl) => eff.value = tot
                /\ z > Val(gwl) => eff.value = tot - (z - Val(gwl)) * 9800

C9_Witness ==
    /\ layers = ExampleLayers
    /\ gwl = Some(2)
    /\ lastOp = <<"vertical_effective_stress", 7>>
    /\ err = "none"
    /\ query = Some(128000 - 5 * 9800)

\* C10: remove_layer of a depth that is no key raises a lookup error and leaves
\* the mapping as it was; add_layer at a depth that is a key raises nothing,
\* puts the given soil at that depth and keeps the number of layers.
C10_MissingAndExistingDepth ==
    [][/\ (lastOp'[1] = "remove_layer" /\ ~HasDepth(layers, lastOp'[2]))
             => (err' = "KeyError" /\ layers' = layers)
       /\ (lastOp'[1] = "add_layer" /\ HasDepth(layers, lastOp'[2]))
             => /\ err' = "none"
                /\ n_layers(layers') = n_layers(layers)
                /\ depths(layers') = depths(layers)
                /\ \A i \in 1..n_layers(layers') :
                       layer(layers', i) =
                           IF layer_depth(layers', i) = lastOp'[2]
                           THEN lastOp'[3]
                           ELSE layer(layers, i)]_vars

C10_Witness ==
    /\ lastOp = <<"remove_layer", 3>>
    /\ err = "KeyError"
    /\ n_layers(layers) >= 2

(***************************************************************************)
(* A Soil that is assigned to, loaded from dictionaries, and saved and     *)
(* reloaded                                                                *)
(***************************************************************************)
GModInputs == {FromInt(64)}
PoissonsRatioInputs == {Quarter}

\* soil.attr = value for any attribute name
AssignAttr(attr, value) ==
    LET r == setattr(soil, attr, value)
    IN  /\ steps < MaxAssign
        /\ steps' = steps + 1
        /\ soil' = r.s
        /\ err' = r.err
        /\ clean' = (clean /\ r.err = "none")
        /\ lastOp' = <<attr, value>>
        /\ UNCHANGED <<log, profileVars>>

AssignGMod == \E v \in GModInputs : AssignAttr("g_mod", v)
AssignPoissonsRatio == \E v \in PoissonsRatioInputs : AssignAttr("poissons_ratio", v)

\* the items a caller's dictionary is made of: cluster attributes, None
\* values, a key the Soil does not declare and a read-only property
DictItems ==
    {<<"unit_dry_weight", FromInt(1600)>>, <<"unit_dry_weight", None>>,
     <<"e_curr", ThreeQuarters>>, <<"e_min", None>>, <<"id", One>>,
     <<"k_0", Half>>}
\* the number of keys of a caller's dictionary
MaxKeys == 2
DictInputs ==
    {d \in UNION {[1..n -> DictItems] : n \in 1..MaxKeys} :
        \A i, j \in 1..Len(d) : d[i][1] = d[j][1] => i = j}

\* add_to_obj(soil, dictionary)
BulkLoad ==
    \E dictionary \in DictInputs :
        LET r == add_to_obj(soil, dictionary, {})
        IN  /\ steps + Len(dictionary) <= MaxAssign
            /\ steps' = steps + Len(dictionary)
            /\ soil' = r.s
            /\ err' = r.err
            /\ clean' = (clean /\ r.err = "none")
            /\ lastOp' = <<"add_to_obj", dictionary>>
            /\ UNCHANGED <<log, profileVars>>

\* soil = add_to_obj(Soil(), soil.to_dict()), as saving the Soil and loading
\* it again does; when to_dict raises, the Soil stays the one it was
RoundTrip ==
    LET d == to_dict(soil)
        r == IF d.err # "none" THEN Raise(soil, d.err)
             ELSE add_to_obj(NewSoil, d.d, {})
    IN  /\ soil' = r.s
        /\ err' = r.err
        /\ clean' = (clean /\ r.err = "none")
        /\ lastOp' = <<"round_trip">>
        /\ UNCHANGED <<steps, log, profileVars>>

\* a Soil that is assigned to and then saved and reloaded
LoadNext ==
    \/ Next
    \/ AssignGMod
    \/ AssignPoissonsRatio
    \/ RoundTrip

LoadSpec == Init /\ [][LoadNext]_vars

\* a Soil that is assigned to and loaded from dictionaries; the keys of
\* DictItems reach the setters of e_curr and unit_dry_weight, which read
\* e_min, e_max, relative_density, e_curr and specific_gravity
BulkNext ==
    \/ AssignEMin
    \/ AssignEMax
    \/ AssignRelativeDensity
    \/ AssignECurr
    \/ AssignUnitDryWeight
    \/ AssignSpecificGravity
    \/ BulkLoad

BulkSpec == Init /\ [][BulkNext]_vars

IsOp(op, name) == Len(op) > 0 /\ op[1] = name
InputKeys == {inputs[i] : i \in 1..Len(inputs)}

\* C11: for any Soil reached by successful assignments, serialising it with
\* to_dict and loading the mapping into a fresh Soil with add_to_obj raises
\* nothing, and the new Soil has the same value for every key of inputs.
C11_RoundTrip ==
    [][(clean /\ IsOp(lastOp', "round_trip"))
           => /\ err' = "none"
              /\ \A k \in InputKeys :
                     k \in DOMAIN soil' /\ soil'[k] = soil[k]]_vars

\* the items of a dictionary whose value is not None, and those among them
\* whose key the Soil declares
NonNone(d) == SelectSeq(d, LAMBDA it : it[2] # None)
Declared(d) == SelectSeq(d, LAMBDA it : it[1] \in DeclaredAttributes)
AllNone(d) == \A i \in 1..Len(d) : d[i][2] = None

\* soil.key = value for each item in turn, up to the first that raises
RECURSIVE AssignEach(_, _)
AssignEach(s, items) ==
    IF items = <<>> THEN Ok(s)
    ELSE LET r == setattr(s, Head(items)[1], Head(items)[2])
         IN  IF r.err # "none" THEN r ELSE AssignEach(r.s, Tail(items))

\* C12 (as stated): a bulk load of a mapping onto a Soil assigns each declared
\* attribute through its setter, ignores the keys the Soil does not declare
\* (no error, no change of state) and skips the entries whose value is None.
\* (Dictionaries that name a read-only property are left aside here.)
C12_UnknownKeysIgnored ==
    [][(/\ IsOp(lastOp', "add_to_obj")
        /\ \A i \in 1..Len(lastOp'[2]) :
               lastOp'[2][i][1] \notin ReadOnlyProperties)
           => LET r == AssignEach(soil, Declared(NonNone(lastOp'[2])))
              IN  soil' = r.s /\ err' = r.err]_vars

\* C12 (amended): add_to_obj assigns each entry whose value is not None, in
\* key order, by attribute assignment and skips the entries whose value is
\* None; a key the Soil does not declare is not ignored: it is stored on the
\* Soil as a new attribute, or raises AttributeError when it names a
\* read-only property.
C12_UnknownKeysStored ==
    [][IsOp(lastOp', "add_to_obj")
           => LET d == lastOp'[2]
                  r == AssignEach(soil, NonNone(d))
              IN  /\ soil' = r.s /\ err' = r.err
                  /\ AllNone(d) => (soil' = soil /\ err' = "none")
                  /\ \A i \in 1..Len(d) :
                         (d[i][1] \notin DeclaredAttributes /\ d[i][2] # None)
                             => \/ /\ err' = "none"
                                   /\ d[i][1] \in DOMAIN soil'
                                   /\ soil'[d[i][1]] = d[i][2]
                                \/ /\ err' = "AttributeError"
                                   /\ \E j \in 1..Len(d) :
                                          d[j][1] \in ReadOnlyProperties
                                \/ err' = "ModelError"]_vars

\* a load that skipped a None entry for e_min, which the Soil had set before,
\* and stored the undeclared key id
C12_Witness ==
    /\ IsOp(lastOp, "add_to_obj")
    /\ err = "none"
    /\ lastOp[2] = << <<"e_min", None>>, <<"id", One>> >>
    /\ soil.e_min # None
    /\ "id" \in DOMAIN soil /\ soil["id"] = One

\* C13: when an assignment to a cluster attribute raises the consistency
\* error, the Soil is exactly what it was before the assignment: neither the
\* assigned attribute nor any peer holds a new value.
C13_RaiseLeavesSoilUnchanged ==
    [][(/\ Len(lastOp') = 2
        /\ lastOp'[1] \in Cluster
        /\ err' = "ModelError")
           => soil' = soil]_vars

\* C14: whenever an assignment of a value to a cluster attribute returns
\* without raising, reading the attribute immediately afterwards returns
\* that value.
C14_ReadAfterWrite ==
    (/\ Len(lastOp) = 2
     /\ lastOp[1] \in Cluster
     /\ err = "none")
        => soil[lastOp[1]] = lastOp[2]

====
